---------------------------- MODULE Spec2Model ----------------------------
(***************************************************************************)
(* Model of main.py: the per-symbol normalizer get_stock_info and the      *)
(* batch driver main.                                                      *)
(*                                                                         *)
(* Encodings.                                                              *)
(*  - Time is counted in whole hours.  An instant is a number of hours on  *)
(*    the UTC axis.  A pandas Timestamp is [k |-> "ts", t, aware, off]:    *)
(*    t is its wall clock reading, aware says whether it carries a zone    *)
(*    and off is that zone's offset from UTC in hours.  America/New_York   *)
(*    is taken at its standard offset (UTC-5); daylight saving changes     *)
(*    are outside the model.                                               *)
(*  - A '%Y-%m-%d' string is [k |-> "date", v |-> day number]: strftime    *)
(*    keeps the day of the wall clock reading and drops the rest, strptime *)
(*    gives back midnight of that day.                                     *)
(*  - Money amounts are whole numbers; a rate or a yield is the exact      *)
(*    fraction [k |-> "num", n, d] (Python computes them in binary         *)
(*    floating point; rounding error of float arithmetic is outside the    *)
(*    model).  A "x.yz%" string is [k |-> "pct", v |-> hundredths].        *)
(*  - A value of the profile map is [k, v] with k one of "absent" (no such *)
(*    key), "none" (None), "bad" (a non-numeric value) and "num".          *)
(***************************************************************************)
EXTENDS Integers, Sequences, FiniteSets, TLC

VARIABLES
    pc,                    \* position inside get_stock_info
    ticker_symbol,         \* the argument
    up,                    \* what the upstream source answered so far
    clock,                 \* the wall clock (an instant)
    info,                  \* local: the profile map
    company_name,          \* local
    next_earnings_date,    \* local
    current_date,          \* local: "now" read at line 52
    dividend_offered,      \* local
    annual_div_rate,       \* local
    latest_price,          \* local
    annual_dividend_yield, \* local
    ex_dividend_date,      \* local
    max_future_date,       \* local: "now" at line 92 plus 180 days
    result,                \* the returned dict
    log,                   \* messages printed by get_stock_info
    main_pc,               \* position inside main
    idx,                   \* main: position in stock_symbols
    results,               \* main: list of collected records
    out,                   \* main: messages printed
    csv                    \* main: rows written to stock_data.csv

norm_vars == <<pc, ticker_symbol, up, clock, info, company_name,
               next_earnings_date, current_date, dividend_offered,
               annual_div_rate, latest_price, annual_dividend_yield,
               ex_dividend_date, max_future_date, result, log>>
main_vars == <<main_pc, idx, results, out, csv>>
vars == <<norm_vars, main_vars>>

----------------------------------------------------------------------------
(* Program constants *)

stock_symbols == <<"AAPL", "MSFT", "GOOGL", "AMZN", "TSLA", "META", "V",
                   "JPM", "DIS", "NFLX">>

HorizonDays == 180
HoursPerDay == 24
NYBehindUTC == 5
RecentCount == 4

Keys == {"Stock Symbol", "Company Name", "Next Earnings Report Date",
         "Dividend Offered", "Ex-Dividend Date", "Annual Dividend Yield"}

(* Bounds of the model *)
MaxLen == 5      \* longest dividend history
MaxRows == 2     \* most rows of the earnings_dates table
MaxDrift == 1    \* most hours passing between the two readings of the clock

----------------------------------------------------------------------------
(* Values *)

NA == [k |-> "N/A", v |-> 0]
NoneStr == [k |-> "none", v |-> 0]
DateStr(day) == [k |-> "date", v |-> day]
PctStr(h) == [k |-> "pct", v |-> h]

NoneVal == [k |-> "none", t |-> 0, aware |-> FALSE, off |-> 0]
OtherVal == [k |-> "other", t |-> 0, aware |-> FALSE, off |-> 0]
TS(wall, aware, off) == [k |-> "ts", t |-> wall, aware |-> aware, off |-> off]

NoneRat == [k |-> "none", n |-> 0, d |-> 1]
Rat(n, d) == [k |-> "num", n |-> n, d |-> d]
RatEq(a, b) == a.k = b.k /\ a.n * b.d = b.n * a.d

AbsentP == [k |-> "absent", v |-> 0]
NoneP == [k |-> "none", v |-> 0]
BadP == [k |-> "bad", v |-> 0]
NumP(x) == [k |-> "num", v |-> x]

EmptyInfo == [shortName |-> "absent", regularMarketPrice |-> AbsentP,
              currentPrice |-> AbsentP]

RECURSIVE SumSeq(_)
SumSeq(s) == IF s = <<>> THEN 0 ELSE Head(s) + SumSeq(Tail(s))

(* python truthiness of a profile value *)
Truthy(p) == p.k = "bad" \/ (p.k = "num" /\ p.v # 0)

(* dict.get(key, default) *)
Get(m, key, default) == IF m[key].k = "absent" THEN default ELSE m[key]

(* Timestamp.strftime('%Y-%m-%d') *)
Strftime(ts) == DateStr(ts.t \div HoursPerDay)

(* datetime.strptime(s, '%Y-%m-%d') followed by ny_tz.localize: the instant *)
(* of midnight New York time of that day                                    *)
StrptimeNY(s) == s.v * HoursPerDay + NYBehindUTC

(* the instant of a Timestamp: tz_convert('UTC') of an aware one,           *)
(* tz_localize(ny_tz).tz_convert('UTC') of a naive one                      *)
ToUTC(ts) == IF ts.aware THEN ts.t - ts.off ELSE ts.t + NYBehindUTC

(* f"{x:.2f}%": x to the nearest hundredth, ties to even *)
Fmt2(y) ==
    LET num == y.n * 100
        q == num \div y.d
        r == num % y.d
    IN  PctStr(IF 2 * r > y.d THEN q + 1
               ELSE IF 2 * r = y.d THEN q + (q % 2)
               ELSE q)

----------------------------------------------------------------------------
(* get_stock_info, facet by facet *)

DefaultCompanyName == "N/A"
DefaultDividendOfferedNA == "N/A"
DefaultDividendOffered == "No"

(* lines 30-35 *)
ProfileFacet(raw) ==
    IF raw.k = "throws"
    THEN [company_name |-> DefaultCompanyName, info |-> EmptyInfo, err |-> TRUE]
    ELSE [company_name |-> IF raw.m.shortName = "absent" THEN "N/A"
                           ELSE raw.m.shortName,
          info |-> raw.m, err |-> FALSE]

(* lines 40-45: the calendar source; every failure is swallowed *)
CalendarDate(cal) ==
    IF cal.k = "df" /\ cal.has_row THEN cal.v ELSE NoneVal

(* python truthiness of next_earnings_date *)
DateTruthy(d) == d.k \in {"ts", "other"}

(* lines 55-62: is a row of the time-indexed table after "now" *)
IsFuture(tbl, wall, now) ==
    IF tbl.aware THEN wall - tbl.off > now
    ELSE wall + NYBehindUTC > now

(* lines 57/62: the rows kept, in table order *)
FutureDates(tbl, now) ==
    LET Keep(w) == IsFuture(tbl, w, now) IN SelectSeq(tbl.rows, Keep)

(* line 65: future_dates.index[0] *)
PickFuture(future) == future[1]

(* lines 48-65 *)
TimeIndexedDate(prev, tbl, now) ==
    IF tbl.k = "df" /\ tbl.rows # <<>>
    THEN LET future == FutureDates(tbl, now)
         IN  IF future # <<>> THEN TS(PickFuture(future), tbl.aware, tbl.off)
             ELSE prev
    ELSE prev

(* lines 38-67 *)
EarningsFacet(cal, tbl, now) ==
    LET first == CalendarDate(cal) IN
    IF DateTruthy(first)
    THEN [next |-> first, fetched |-> FALSE, err |-> FALSE]
    ELSE IF tbl.k = "throws"
         THEN [next |-> first, fetched |-> TRUE, err |-> TRUE]
         ELSE [next |-> TimeIndexedDate(first, tbl, now), fetched |-> TRUE,
               err |-> FALSE]

(* line 78: head(4).sum() if len >= 4 else sum() * (4 / len) *)
AnnualDivRate(amounts) ==
    IF Len(amounts) >= RecentCount
    THEN Rat(SumSeq(SubSeq(amounts, 1, RecentCount)), 1)
    ELSE Rat(SumSeq(amounts) * 4, Len(amounts))

(* line 79, as a variant: currentPrice first *)
LatestPriceCurrentFirst(m) ==
    Get(m, "currentPrice", Get(m, "regularMarketPrice", NoneP))

(* line 79, as a variant: a default price when neither key is there *)
LatestPriceDefaultOne(m) ==
    Get(m, "regularMarketPrice", Get(m, "currentPrice", NumP(1)))

(* line 79: info.get('regularMarketPrice', info.get('currentPrice')) *)
LatestPrice(m) ==
    Get(m, "regularMarketPrice", Get(m, "currentPrice", NoneP))

(* line 81: (annual_div_rate / latest_price) * 100 *)
YieldOf(rate, price) == Rat(rate.n * 100, rate.d * price)

(* line 75 moved to the end of the block: "Yes" only when nothing failed *)
OfferedLate(nonempty, failed) ==
    IF nonempty /\ ~failed THEN "Yes" ELSE DefaultDividendOffered

(* lines 74-75: "Yes" as soon as the history is seen to be non-empty *)
Offered(nonempty, failed) ==
    IF nonempty THEN "Yes" ELSE DefaultDividendOffered

(* lines 70-88 *)
DividendFacet(m, raw) ==
    LET none == [offered |-> Offered(FALSE, raw.k = "throws"),
                 rate |-> NoneRat, price |-> NoneP,
                 yield |-> NoneRat, ex |-> NoneStr, err |-> raw.k = "throws"]
    IN
    IF raw.k = "throws" \/ raw.amounts = <<>> THEN none
    ELSE
      LET rate == AnnualDivRate(raw.amounts)
          price == LatestPrice(m)
          divfails == Truthy(price) /\ price.k = "bad"
          y == IF Truthy(price) /\ ~divfails THEN YieldOf(rate, price.v)
               ELSE NoneRat
          failed == divfails \/ ~raw.idx_ok
      IN [offered |-> Offered(TRUE, failed),
          rate |-> rate, price |-> price,
          yield |-> y,
          ex |-> IF failed THEN NoneStr ELSE Strftime(raw.last),
          err |-> failed]

(* lines 95-105 *)
FilterEarnings(d, maxf) ==
    IF DateTruthy(d) /\ d.k = "ts" /\ ToUTC(d) > maxf THEN NoneVal ELSE d

(* lines 107-114 *)
FilterExDividend(s, maxf) ==
    IF s.k = "date" /\ StrptimeNY(s) > maxf THEN NoneStr ELSE s

(* line 93 *)
MaxFuture(now) == now + HorizonDays * HoursPerDay

(* line 119 *)
EarningsField(d) == IF d.k = "ts" THEN Strftime(d) ELSE NA

(* line 121 *)
ExDividendField(s) == IF s.k = "date" THEN s ELSE NA

(* line 122 *)
YieldField(y) == IF y.k = "num" /\ y.n # 0 THEN Fmt2(y) ELSE NA

(* lines 116-123 *)
Record(sym, name, d, offered, ex, y) ==
    [f \in Keys |->
        CASE f = "Stock Symbol" -> sym
          [] f = "Company Name" -> name
          [] f = "Next Earnings Report Date" -> EarningsField(d)
          [] f = "Dividend Offered" -> offered
          [] f = "Ex-Dividend Date" -> ExDividendField(ex)
          [] f = "Annual Dividend Yield" -> YieldField(y)]

(* lines 127-134, as a variant: a field forgotten *)
FailureRecordShort(sym) ==
    [f \in Keys \ {"Annual Dividend Yield"} |->
        IF f = "Stock Symbol" THEN sym
        ELSE IF f \in {"Company Name", "Dividend Offered"} THEN "N/A" ELSE NA]

(* lines 127-134 *)
FailureRecord(sym) ==
    [f \in Keys |->
        IF f = "Stock Symbol" THEN sym
        ELSE IF f \in {"Company Name", "Dividend Offered"} THEN "N/A" ELSE NA]

(* get_stock_info as a whole, lines 18-134: w is what the upstream answers *)
(* and what the clock shows at lines 52 and 92                             *)
get_stock_info(sym, w) ==
    IF ~w.ticker_ok THEN FailureRecord(sym)
    ELSE
      LET p == ProfileFacet(w.info)
          e == EarningsFacet(w.calendar, w.earnings_dates, w.now1)
          dv == DividendFacet(p.info, w.dividends)
          maxf == MaxFuture(w.now2)
      IN Record(sym, p.company_name, FilterEarnings(e.next, maxf),
                dv.offered, FilterExDividend(dv.ex, maxf), dv.yield)

----------------------------------------------------------------------------
(* What the upstream source may answer *)

Now0 == 1000 * HoursPerDay + 15      \* 10:00 in New York on day 1000
Horizon == HorizonDays * HoursPerDay

Prices == {AbsentP, NoneP, BadP, NumP(0), NumP(2), NumP(5)}

ProfileUnfetched == [k |-> "unfetched", m |-> EmptyInfo]
ProfileThrows == [k |-> "throws", m |-> EmptyInfo]
ProfileMap(name, reg, cur) ==
    [k |-> "map", m |-> [shortName |-> name, regularMarketPrice |-> reg,
                         currentPrice |-> cur]]

CalUnfetched == [k |-> "unfetched", has_row |-> FALSE, v |-> NoneVal]
CalThrows == [k |-> "throws", has_row |-> FALSE, v |-> NoneVal]
CalDict == [k |-> "dict", has_row |-> FALSE, v |-> NoneVal]
CalDF(has, v) == [k |-> "df", has_row |-> has, v |-> v]

TblThrows == [k |-> "throws", rows |-> <<>>, aware |-> FALSE, off |-> 0]
TblNone == [k |-> "none", rows |-> <<>>, aware |-> FALSE, off |-> 0]
TblUnfetched == [k |-> "unfetched", rows |-> <<>>, aware |-> FALSE, off |-> 0]
TblDF(rows, aware, off) == [k |-> "df", rows |-> rows, aware |-> aware, off |-> off]

DivUnfetched == [k |-> "unfetched", amounts |-> <<>>, idx_ok |-> TRUE, last |-> NoneVal]
DivThrows == [k |-> "throws", amounts |-> <<>>, idx_ok |-> TRUE, last |-> NoneVal]
DivSeries(amounts, ok, last) ==
    [k |-> "series", amounts |-> amounts, idx_ok |-> ok, last |-> last]

(* a zone is "naive" or an offset from UTC; the Timestamp showing instant i *)
Zones == {[aware |-> FALSE, off |-> 0], [aware |-> TRUE, off |-> 0],
          [aware |-> TRUE, off |-> 0 - NYBehindUTC], [aware |-> TRUE, off |-> 0 - 8]}
WallOf(i, z) == IF z.aware THEN i + z.off ELSE i - NYBehindUTC
At(i, z) == TS(WallOf(i, z), z.aware, z.off)

SeqsUpTo(S, n) == UNION {[1..m -> S] : m \in 0..n}

(* the profile and dividend facets in breadth, the earnings facet and the *)
(* dates narrow                                                           *)
ProfilesA ==
    {ProfileThrows} \cup
    {ProfileMap(name, reg, cur) :
        name \in {"absent", "Acme Inc."}, reg \in Prices, cur \in Prices}
CalsA ==
    {CalThrows, CalDict,
     CalDF(TRUE, At(Now0 + 30 * HoursPerDay, [aware |-> FALSE, off |-> 0]))}
TablesA ==
    {TblThrows, TblNone,
     TblDF(<<WallOf(Now0 + 30 * HoursPerDay, [aware |-> FALSE, off |-> 0])>>, FALSE, 0)}
DivsA ==
    {DivThrows, DivSeries(<<>>, TRUE, NoneVal)} \cup
    {DivSeries(a, ok, At(Now0 - 30 * HoursPerDay, [aware |-> TRUE, off |-> 0 - NYBehindUTC])) :
        a \in SeqsUpTo({1, 2}, MaxLen) \ {<<>>}, ok \in BOOLEAN}
DriftsA == {0}

(* the earnings facet and the dates in breadth, the rest narrow *)
EarnInstants == {Now0 - HoursPerDay, Now0 + 30 * HoursPerDay,
                 Now0 + 90 * HoursPerDay, Now0 + Horizon, Now0 + Horizon + 2}
DivInstants == {Now0 - HoursPerDay, Now0 + Horizon - 10, Now0 + Horizon,
                Now0 + Horizon + 1, Now0 + Horizon + 16,
                Now0 + Horizon + 2 * HoursPerDay}
ProfilesB == {ProfileThrows, ProfileMap("Acme Inc.", NumP(2), AbsentP)}
CalsB ==
    {CalThrows, CalDict, CalDF(FALSE, NoneVal), CalDF(TRUE, NoneVal),
     CalDF(TRUE, OtherVal)} \cup
    {CalDF(TRUE, At(i, z)) : i \in EarnInstants, z \in Zones}
TablesB ==
    {TblThrows, TblNone} \cup
    {TblDF([j \in DOMAIN r |-> WallOf(r[j], z)], z.aware, z.off) :
        r \in SeqsUpTo(EarnInstants, MaxRows), z \in Zones}
DivsB ==
    {DivThrows, DivSeries(<<>>, TRUE, NoneVal), DivSeries(<<1>>, FALSE, NoneVal)} \cup
    {DivSeries(<<1>>, TRUE, At(i, z)) : i \in DivInstants, z \in Zones}
DriftsB == 0..MaxDrift

----------------------------------------------------------------------------
(* get_stock_info, step by step *)

NormInit ==
    /\ pc = "idle"
    /\ ticker_symbol = ""
    /\ up = [info |-> ProfileUnfetched, calendar |-> CalUnfetched,
             earnings_dates |-> TblUnfetched, dividends |-> DivUnfetched,
             ticker_ok |-> FALSE]
    /\ clock = Now0
    /\ info = EmptyInfo
    /\ company_name = ""
    /\ next_earnings_date = NoneVal
    /\ current_date = 0
    /\ dividend_offered = ""
    /\ annual_div_rate = NoneRat
    /\ latest_price = NoneP
    /\ annual_dividend_yield = NoneRat
    /\ ex_dividend_date = NoneStr
    /\ max_future_date = 0
    /\ result = <<>>
    /\ log = <<>>

(* lines 18-27: the call, the Ticker constructor and the defaults *)
Call(Syms) ==
    /\ pc = "idle"
    /\ \E sym \in Syms, ok \in BOOLEAN :
        /\ ticker_symbol' = sym
        /\ up' = [up EXCEPT !.ticker_ok = ok]
        /\ pc' = IF ok THEN "info" ELSE "except"
        /\ company_name' = IF ok THEN DefaultCompanyName ELSE company_name
        /\ dividend_offered' = IF ok THEN DefaultDividendOffered ELSE dividend_offered
    /\ UNCHANGED <<clock, info, next_earnings_date, current_date,
                   annual_div_rate, latest_price, annual_dividend_yield,
                   ex_dividend_date, max_future_date, result, log>>
    /\ UNCHANGED main_vars

(* lines 29-35 *)
GetInfo(Profiles) ==
    /\ pc = "info"
    /\ \E raw \in Profiles :
        LET p == ProfileFacet(raw) IN
        /\ up' = [up EXCEPT !.info = raw]
        /\ company_name' = p.company_name
        /\ info' = p.info
        /\ log' = IF p.err THEN Append(log, "Error getting info") ELSE log
    /\ pc' = "earnings"
    /\ UNCHANGED <<ticker_symbol, clock, next_earnings_date, current_date,
                   dividend_offered, annual_div_rate, latest_price,
                   annual_dividend_yield, ex_dividend_date, max_future_date,
                   result>>
    /\ UNCHANGED main_vars

(* lines 37-67: earnings_dates is fetched only when the calendar gave nothing *)
GetEarnings(Cals, Tables) ==
    /\ pc = "earnings"
    /\ \E cal \in Cals, tbl \in Tables \cup {TblUnfetched} :
        LET e == EarningsFacet(cal, tbl, clock) IN
        /\ e.fetched <=> tbl.k # "unfetched"
        /\ up' = [up EXCEPT !.calendar = cal, !.earnings_dates = tbl]
        /\ next_earnings_date' = e.next
        /\ current_date' = IF tbl.k = "df" /\ tbl.rows # <<>> THEN clock
                           ELSE current_date
        /\ log' = IF e.err THEN Append(log, "Error getting earnings date") ELSE log
    /\ pc' = "dividends"
    /\ UNCHANGED <<ticker_symbol, clock, info, company_name, dividend_offered,
                   annual_div_rate, latest_price, annual_dividend_yield,
                   ex_dividend_date, max_future_date, result>>
    /\ UNCHANGED main_vars

(* lines 69-88 *)
GetDividends(Divs) ==
    /\ pc = "dividends"
    /\ \E raw \in Divs :
        LET dv == DividendFacet(info, raw) IN
        /\ up' = [up EXCEPT !.dividends = raw]
        /\ dividend_offered' = dv.offered
        /\ annual_div_rate' = dv.rate
        /\ latest_price' = dv.price
        /\ annual_dividend_yield' = dv.yield
        /\ ex_dividend_date' = dv.ex
        /\ log' = IF dv.err THEN Append(log, "Error getting dividend info") ELSE log
    /\ pc' = "validate"
    /\ UNCHANGED <<ticker_symbol, clock, info, company_name,
                   next_earnings_date, current_date, max_future_date, result>>
    /\ UNCHANGED main_vars

(* lines 90-114: the clock is read again, no earlier than at line 52 *)
ValidateDates(Drifts) ==
    /\ pc = "validate"
    /\ \E d \in Drifts :
        /\ clock' = clock + d
        /\ max_future_date' = MaxFuture(clock + d)
        /\ next_earnings_date' = FilterEarnings(next_earnings_date, MaxFuture(clock + d))
        /\ ex_dividend_date' = FilterExDividend(ex_dividend_date, MaxFuture(clock + d))
    /\ pc' = "return"
    /\ UNCHANGED <<ticker_symbol, up, info, company_name, current_date,
                   dividend_offered, annual_div_rate, latest_price,
                   annual_dividend_yield, result, log>>
    /\ UNCHANGED main_vars

(* lines 116-123 *)
Return ==
    /\ pc = "return"
    /\ result' = Record(ticker_symbol, company_name, next_earnings_date,
                        dividend_offered, ex_dividend_date, annual_dividend_yield)
    /\ pc' = "returned"
    /\ UNCHANGED <<ticker_symbol, up, clock, info, company_name,
                   next_earnings_date, current_date, dividend_offered,
                   annual_div_rate, latest_price, annual_dividend_yield,
                   ex_dividend_date, max_future_date, log>>
    /\ UNCHANGED main_vars

(* lines 125-134 *)
Except ==
    /\ pc = "except"
    /\ log' = Append(log, "Failed to process")
    /\ result' = FailureRecord(ticker_symbol)
    /\ pc' = "returned"
    /\ UNCHANGED <<ticker_symbol, up, clock, info, company_name,
                   next_earnings_date, current_date, dividend_offered,
                   annual_div_rate, latest_price, annual_dividend_yield,
                   ex_dividend_date, max_future_date>>
    /\ UNCHANGED main_vars

----------------------------------------------------------------------------
(* main *)

(* the two upstream worlds the driver's calls are run against *)
WorldDown ==
    [ticker_ok |-> FALSE, info |-> ProfileThrows, calendar |-> CalThrows,
     earnings_dates |-> TblThrows, dividends |-> DivThrows,
     now1 |-> Now0, now2 |-> Now0]
WorldUp ==
    [ticker_ok |-> TRUE, info |-> ProfileMap("Acme Inc.", NumP(5), AbsentP),
     calendar |-> CalDict,
     earnings_dates |-> TblDF(<<Now0 + 30 * HoursPerDay>>, TRUE, 0),
     dividends |-> DivSeries(<<1, 1>>, TRUE, TS(Now0 - 30 * HoursPerDay, TRUE, 0)),
     now1 |-> Now0, now2 |-> Now0]
WorldsMain == {WorldDown, WorldUp}

MainInit ==
    /\ main_pc = "loop"
    /\ idx = 1
    /\ results = <<>>
    /\ out = <<>>
    /\ csv = <<>>

Msg(text, sym) == [text |-> text, sym |-> sym]

(* line 151 replaced by break *)
AfterFailureBreak(i) == Len(stock_symbols) + 1

(* line 151: continue with the next symbol *)
AfterFailure(i) == i + 1

(* lines 144-148: the call returns a record *)
MainCallReturns(Worlds) ==
    /\ main_pc = "loop"
    /\ idx <= Len(stock_symbols)
    /\ \E w \in Worlds :
        results' = Append(results, get_stock_info(stock_symbols[idx], w))
    /\ out' = Append(out, Msg("Processed", stock_symbols[idx]))
    /\ idx' = idx + 1
    /\ UNCHANGED <<main_pc, csv>>
    /\ UNCHANGED norm_vars

(* lines 144-146, 149-151: an Exception leaves the call *)
MainCallRaises ==
    /\ main_pc = "loop"
    /\ idx <= Len(stock_symbols)
    /\ out' = Append(out, Msg("Failed to process", stock_symbols[idx]))
    /\ idx' = AfterFailure(idx)
    /\ UNCHANGED <<main_pc, results, csv>>
    /\ UNCHANGED norm_vars

(* line 144: the list is exhausted *)
MainLoopEnd ==
    /\ main_pc = "loop"
    /\ idx > Len(stock_symbols)
    /\ main_pc' = "save"
    /\ UNCHANGED <<idx, results, out, csv>>
    /\ UNCHANGED norm_vars

(* lines 153-161 *)
MainSave ==
    /\ main_pc = "save"
    /\ IF results # <<>>
       THEN \E ok \in BOOLEAN :
            /\ csv' = IF ok THEN results ELSE csv
            /\ out' = Append(out, Msg(IF ok THEN "Data saved" ELSE "Error saving", ""))
       ELSE /\ csv' = csv
            /\ out' = Append(out, Msg("No data was collected", ""))
    /\ main_pc' = "done"
    /\ UNCHANGED <<idx, results>>
    /\ UNCHANGED norm_vars

----------------------------------------------------------------------------
(* Specifications *)

Init == NormInit /\ MainInit

TestedSymbols == {"AAPL", "MSFT"}

Next ==
    \/ Call(TestedSymbols)
    \/ GetInfo(ProfilesA)
    \/ GetEarnings(CalsA, TablesA)
    \/ GetDividends(DivsA)
    \/ ValidateDates(DriftsA)
    \/ Return
    \/ Except

Spec == Init /\ [][Next]_vars

NextEarnings ==
    \/ Call({"AAPL"})
    \/ GetInfo(ProfilesB)
    \/ GetEarnings(CalsB, TablesB)
    \/ GetDividends(DivsB)
    \/ ValidateDates(DriftsB)
    \/ Return
    \/ Except

SpecEarnings == Init /\ [][NextEarnings]_vars

NextMain ==
    \/ MainCallReturns(WorldsMain)
    \/ MainCallRaises
    \/ MainLoopEnd
    \/ MainSave

SpecMain == Init /\ [][NextMain]_vars

(* the step-wise run and the function agree *)
World ==
    [ticker_ok |-> up.ticker_ok, info |-> up.info, calendar |-> up.calendar,
     earnings_dates |-> up.earnings_dates, dividends |-> up.dividends,
     now1 |-> current_date, now2 |-> clock]
StepsAgree == pc = "returned" => result = get_stock_info(ticker_symbol, World)

----------------------------------------------------------------------------
(* Properties *)

Returned == pc = "returned"
InnerReturn == pc = "returned" /\ up.ticker_ok
Printed(text) == \E i \in 1..Len(log) : log[i] = text
HasHistory == up.dividends.k = "series" /\ up.dividends.amounts # <<>>
AfterDividends == pc \in {"validate", "return", "returned"} /\ up.ticker_ok

(* C1: for every symbol and every combination of upstream behaviour the   *)
(* call ends only by returning, and what it returns has exactly the six   *)
(* keys, with 'Stock Symbol' the symbol passed in.                         *)
C1_SixFields ==
    /\ pc = "returned" \/ ENABLED Next
    /\ pc = "returned" =>
        /\ DOMAIN result = Keys
        /\ result["Stock Symbol"] = ticker_symbol

(* the profile fetch and the earnings fetch threw, the history is there *)
C1_Witness ==
    /\ InnerReturn
    /\ up.info.k = "throws"
    /\ up.earnings_dates.k = "throws"
    /\ HasHistory
    /\ Len(log) = 2
    /\ DOMAIN result = Keys

(* C2: on every return path 'Dividend Offered' is "Yes" or "No". *)
C2_DividendOfferedYesNo ==
    pc = "returned" => result["Dividend Offered"] \in {"Yes", "No"}

(* the rate the specification asks for: the RecentCount last payments *)
RateOfMostRecent(amounts) ==
    IF Len(amounts) >= 4
    THEN Rat(SumSeq(SubSeq(amounts, Len(amounts) - 3, Len(amounts))), 1)
    ELSE Rat(SumSeq(amounts) * 4, Len(amounts))

(* C3: for a non-empty history, oldest payment first, the annualized rate *)
(* is the sum of the last four payments when there are at least four, and *)
(* sum(all) * (4 / k) when there are k < 4.                                *)
C3_RateOfMostRecent ==
    (AfterDividends /\ HasHistory) =>
        RatEq(annual_div_rate, RateOfMostRecent(up.dividends.amounts))

(* the price of the profile as upstream gave it, one key before the other *)
PriceByKeys(first, second) ==
    IF up.info.k # "map" THEN NoneP
    ELSE IF up.info.m[first].k # "absent" THEN up.info.m[first]
    ELSE IF up.info.m[second].k # "absent" THEN up.info.m[second]
    ELSE NoneP

YieldFrom(price) ==
    /\ latest_price = price
    /\ (price.k = "num" /\ price.v # 0) =>
        /\ annual_dividend_yield.k = "num"
        /\ annual_dividend_yield.n * annual_div_rate.d * price.v
             = annual_div_rate.n * 100 * annual_dividend_yield.d
        /\ Returned => result["Annual Dividend Yield"] = Fmt2(annual_dividend_yield)

(* C4 as amended: with a non-empty history the price used is the value of *)
(* 'regularMarketPrice' whenever that key is present, and the value of    *)
(* 'currentPrice' only when 'regularMarketPrice' is absent; when that     *)
(* value is a non-zero number the yield is (rate / price) * 100.           *)
C4_RegularMarketPriceFirst ==
    (AfterDividends /\ HasHistory) =>
        YieldFrom(PriceByKeys("regularMarketPrice", "currentPrice"))

(* both keys present with different prices; the yield is 7 / 2 * 100 *)
C4_Witness ==
    /\ InnerReturn
    /\ up.dividends.amounts = <<1, 2, 2, 2, 2>>
    /\ up.info.k = "map"
    /\ up.info.m.regularMarketPrice = NumP(2)
    /\ up.info.m.currentPrice = NumP(5)
    /\ result["Annual Dividend Yield"] = PctStr(35000)

(* C4: with a non-empty history the price used is 'currentPrice' when     *)
(* present and 'regularMarketPrice' only as a fallback; the yield is      *)
(* (rate / that price) * 100.                                              *)
C4_CurrentPriceFirst ==
    (AfterDividends /\ HasHistory) =>
        YieldFrom(PriceByKeys("currentPrice", "regularMarketPrice"))

Usable(p) == p.k = "num" /\ p.v # 0
NoPriceResolvable ==
    \/ up.info.k = "throws"
    \/ /\ ~Usable(up.info.m.regularMarketPrice)
       /\ ~Usable(up.info.m.currentPrice)

(* C5: when no price can be had from the profile (the fetch threw, or     *)
(* neither price key holds a usable number) the returned yield is "N/A",  *)
(* whatever the dividend history.                                          *)
C5_NoPriceNoYield ==
    (Returned /\ NoPriceResolvable) => result["Annual Dividend Yield"] = NA

(* the profile fetch threw and dividends are paid *)
C5_Witness ==
    /\ InnerReturn
    /\ up.info.k = "throws"
    /\ HasHistory
    /\ up.dividends.idx_ok
    /\ result["Dividend Offered"] = "Yes"
    /\ result["Ex-Dividend Date"].k = "date"
    /\ result["Annual Dividend Yield"] = NA

AllFacetsThrow ==
    /\ up.info.k = "throws"
    /\ up.calendar.k = "throws"
    /\ up.earnings_dates.k = "throws"
    /\ up.dividends.k = "throws"

AllNAExcept(offered) ==
    result = [f \in Keys |->
                CASE f = "Stock Symbol" -> ticker_symbol
                  [] f = "Company Name" -> "N/A"
                  [] f = "Dividend Offered" -> offered
                  [] OTHER -> NA]

(* C7 as amended: when the profile fetch, both earnings fetches and the   *)
(* dividend fetch raise, the record has 'Dividend Offered' "No" and every *)
(* other field but 'Stock Symbol' "N/A".                                   *)
C7_AllThrowOfferedNo == (InnerReturn /\ AllFacetsThrow) => AllNAExcept("No")

C7_Witness ==
    /\ InnerReturn
    /\ AllFacetsThrow
    /\ log = <<"Error getting info", "Error getting earnings date",
               "Error getting dividend info">>

(* C7: when all three facets throw, every field other than 'Stock Symbol' *)
(* is "N/A", 'Dividend Offered' included.                                  *)
C7_AllThrowAllNA == (InnerReturn /\ AllFacetsThrow) => AllNAExcept("N/A")

DividendFailed == Printed("Error getting dividend info")
NameOf(raw) ==
    IF raw.k = "map" /\ raw.m.shortName # "absent" THEN raw.m.shortName ELSE "N/A"
RestProduced ==
    /\ DOMAIN result = Keys
    /\ result["Stock Symbol"] = ticker_symbol
    /\ result["Company Name"] = NameOf(up.info)
    /\ result["Next Earnings Report Date"] = EarningsField(next_earnings_date)

(* C10 as amended: a failure of the dividend facet never aborts the       *)
(* record.  When the fetch itself fails, 'Dividend Offered' stays "No"    *)
(* and yield and ex-dividend date are "N/A".  When the failure comes      *)
(* after the history was found non-empty, 'Dividend Offered' is "Yes" and *)
(* the ex-dividend date is "N/A"; the yield is "N/A" when the yield       *)
(* computation failed, and keeps its computed value when only the         *)
(* ex-dividend date failed.                                                *)
C10_FailureAfterYes ==
    (InnerReturn /\ DividendFailed) =>
        /\ RestProduced
        /\ result["Ex-Dividend Date"] = NA
        /\ ~HasHistory =>
            /\ result["Dividend Offered"] = "No"
            /\ result["Annual Dividend Yield"] = NA
        /\ HasHistory =>
            /\ result["Dividend Offered"] = "Yes"
            /\ latest_price.k = "bad" => result["Annual Dividend Yield"] = NA
            /\ Usable(latest_price) =>
                result["Annual Dividend Yield"]
                    = Fmt2(YieldOf(annual_div_rate, latest_price.v))

(* the yield computation failed on a non-numeric price *)
C10_Witness ==
    /\ InnerReturn
    /\ DividendFailed
    /\ HasHistory
    /\ latest_price.k = "bad"
    /\ result["Dividend Offered"] = "Yes"
    /\ result["Company Name"] = "Acme Inc."

(* C10: any failure inside the dividend facet leaves 'Dividend Offered'   *)
(* "No" and yield and ex-dividend date "N/A", the rest of the record      *)
(* being produced.                                                         *)
C10_FailureLeavesNo ==
    (InnerReturn /\ DividendFailed) =>
        /\ RestProduced
        /\ result["Dividend Offered"] = "No"
        /\ result["Annual Dividend Yield"] = NA
        /\ result["Ex-Dividend Date"] = NA

(* what the calendar source yields, read from the upstream answer *)
CalendarYields ==
    up.calendar.k = "df" /\ up.calendar.has_row /\ up.calendar.v.k \in {"ts", "other"}

(* the instant a wall clock reading of the earnings table stands for *)
TableInstant(w) ==
    IF up.earnings_dates.aware THEN w - up.earnings_dates.off ELSE w + NYBehindUTC

FutureRows ==
    {j \in 1..Len(up.earnings_dates.rows) :
        TableInstant(up.earnings_dates.rows[j]) > current_date}

AfterEarnings == pc \in {"dividends", "validate"}

(* C9: when the calendar source yields no date and the time-indexed table *)
(* is non-empty, the date chosen is the earliest of the table's dates     *)
(* strictly after "now" (New York), for any row order and for naive and   *)
(* aware indices; when the calendar source yields a date the              *)
(* time-indexed source is not used.                                        *)
C9_EarliestFutureDate ==
    AfterEarnings =>
        /\ CalendarYields =>
            /\ up.earnings_dates.k = "unfetched"
            /\ next_earnings_date = up.calendar.v
        /\ (~CalendarYields /\ up.earnings_dates.k = "df" /\ FutureRows # {}) =>
            /\ next_earnings_date.k = "ts"
            /\ \A j \in FutureRows :
                ToUTC(next_earnings_date) <= TableInstant(up.earnings_dates.rows[j])

(* the day a Timestamp falls on in New York, and the instant it begins *)
DayInNY(ts) == (ToUTC(ts) - NYBehindUTC) \div HoursPerDay
MidnightNY(day) == day * HoursPerDay + NYBehindUTC

(* the earnings date as resolved, before the validation of lines 90-105 *)
Resolved == EarningsFacet(up.calendar, up.earnings_dates, current_date).next

(* C6: in every returned record, an earnings date resolved from either    *)
(* source that is more than 180 days after "now" (New York) shows as      *)
(* "N/A", and so does the ex-dividend date when the most recent payment's *)
(* date is more than 180 days after "now"; for naive dates (taken as New  *)
(* York time) and for aware ones.  The payment's date is read as the day  *)
(* it falls on in New York.                                                *)
C6_FarFutureSuppressed ==
    InnerReturn =>
        /\ (Resolved.k = "ts" /\ ToUTC(Resolved) > clock + Horizon) =>
            result["Next Earnings Report Date"] = NA
        /\ (HasHistory /\ up.dividends.idx_ok
              /\ MidnightNY(DayInNY(up.dividends.last)) > clock + Horizon) =>
            result["Ex-Dividend Date"] = NA

(* the half of C6 about the earnings date alone *)
EarningsHorizon ==
    (InnerReturn /\ Resolved.k = "ts" /\ ToUTC(Resolved) > clock + Horizon) =>
        result["Next Earnings Report Date"] = NA

(* the ex-dividend date as the code compares it: the day the Timestamp    *)
(* shows in its own zone, taken as midnight in New York                    *)
ExDividendHorizonAsCoded ==
    (InnerReturn /\ HasHistory /\ up.dividends.idx_ok
       /\ MidnightNY(up.dividends.last.t \div HoursPerDay) > clock + Horizon) =>
        result["Ex-Dividend Date"] = NA

Processed == SelectSeq(out, LAMBDA m : m.text = "Processed")
Tried == SelectSeq(out, LAMBDA m : m.text \in {"Processed", "Failed to process"})

(* C8: main goes through stock_symbols in order and a raising call does   *)
(* not stop it: the calls made so far are those of the symbols before     *)
(* idx, in order, each either processed or failed; results holds exactly  *)
(* one record per processed symbol, in that order, and none for a failed  *)
(* one; and the loop is left only when every symbol has been tried.        *)
C8_BatchContinues ==
    /\ Len(Tried) = idx - 1
    /\ \A i \in 1..Len(Tried) : Tried[i].sym = stock_symbols[i]
    /\ Len(results) = Len(Processed)
    /\ \A i \in 1..Len(results) :
        /\ DOMAIN results[i] = Keys
        /\ results[i]["Stock Symbol"] = Processed[i].sym
    /\ main_pc # "loop" => idx = Len(stock_symbols) + 1

(* ten symbols, the third call raised, nine rows written *)
C8_Witness ==
    /\ main_pc = "done"
    /\ out[3].text = "Failed to process"
    /\ Len(results) = 9
    /\ results[3]["Stock Symbol"] = "AMZN"
    /\ csv = results

=============================================================================
